---- MODULE Spec2Model ----
(***************************************************************************)
(* The finetune filter of self_hosting_machinery/finetune/scripts/        *)
(* finetune_filter.py: main() drives force_include_exclude_filter, then   *)
(* loss_based_filter, then dump_filtered, and maps the way the run ends   *)
(* to RunState's status and the process exit code.                        *)
(*                                                                         *)
(* Numbers.  A loss is a rational <<n, d>> in lowest terms (d > 0); the   *)
(* scorer's per-batch losses are small naturals, or NaN / Inf.  The text  *)
(* of a reason is a real string: f"loss {x:.3f}" rounds x to thousandths. *)
(***************************************************************************)
EXTENDS Integers, Sequences, FiniteSets, TLC

(* ---- bounds of the model ---------------------------------------------- *)
NumFiles == 2
MaxLen == 3

(* ---- input domains ---------------------------------------------------- *)
Files == 1..NumFiles
\* the held-out test subset: one file, after the training files
TestFiles == {NumFiles + 1}
AllFiles == Files \cup TestFiles
NaN == -1
Inf == -2
FiniteLosses == {1, 2}
LossValues == FiniteLosses \cup {NaN, Inf}
Thresholds == {1, 2}
ErrMsgs == {"CUDA out of memory", ""}
FaultMsgs == {"No space left on device", ""}
BatchSeqs == UNION {[1..n -> LossValues] : n \in 0..MaxLen}

EXIT_INTERRUPTED == 99
EXIT_FAILED == 1

VARIABLES
    pc,              \* main()'s position
    exitCode,        \* the exit code the process ends with once pc = "done"
    status,          \* RunState.status
    error_message,   \* RunState.error_message
    include,         \* is_force_included(file['path'])
    exclude,         \* is_force_excluded(file['path'])
    filter_loss_threshold,
    fstatus,         \* FilesStatusContext: file -> status
    reason,          \* FilesStatusContext: file -> reason
    force_files,     \* the list force_include_exclude_filter iterates
    fi,              \* its position in that list
    train_files,     \* loss_based_filter's train_files
    idx,             \* its position in that list
    scorer_out,      \* what the scorer did for the file being scored
    file_loss,       \* file -> what _get_file_loss() returned or raised
    all_losses,      \* loss_based_filter's all_losses
    total_steps,     \* RunState.total_steps
    completed_steps, \* RunState.completed_steps
    avg_loss,        \* RunState.stats["avg_loss"]
    dumped,          \* calls of dump_filtered
    interrupted_by,  \* history: the interruption delivered, if any
    interrupted_at,  \* history: main()'s position when it was delivered
    up_to_date,      \* history: what is_up_to_date() answered
    error_at,        \* history: main()'s position when an Exception escaped
    scored           \* history: file -> calls of _get_file_loss() for it

vars == <<pc, exitCode, status, error_message, include, exclude,
          filter_loss_threshold, fstatus, reason, force_files, fi,
          train_files, idx, scorer_out, file_loss, all_losses, total_steps,
          completed_steps, avg_loss, dumped, interrupted_by, interrupted_at,
          up_to_date, error_at, scored>>

(* ---- rationals -------------------------------------------------------- *)
RECURSIVE GCD(_, _)
GCD(a, b) == IF b = 0 THEN a ELSE GCD(b, a % b)

Norm(r) == LET g == GCD(r[1], r[2]) IN <<r[1] \div g, r[2] \div g>>
RAdd(a, b) == Norm(<<a[1] * b[2] + b[1] * a[2], a[2] * b[2]>>)
RDivInt(a, k) == Norm(<<a[1], a[2] * k>>)
RGt(a, b) == a[1] * b[2] > b[1] * a[2]
Zero == <<0, 1>>

RECURSIVE SumSeq(_)
SumSeq(s) == IF s = <<>> THEN 0 ELSE Head(s) + SumSeq(Tail(s))

RECURSIVE RSumSeq(_)
RSumSeq(s) == IF s = <<>> THEN Zero ELSE RAdd(Head(s), RSumSeq(Tail(s)))

(* ---- f"loss {file_loss:.3f}" ------------------------------------------ *)
\* x rounded to the nearest thousandth, in thousandths
Round3(x) == (2000 * x[1] + x[2]) \div (2 * x[2])

Pad3(n) == IF n < 10 THEN "00" \o ToString(n)
           ELSE IF n < 100 THEN "0" \o ToString(n)
           ELSE ToString(n)

Fixed3(ms) == ToString(ms \div 1000) \o "." \o Pad3(ms % 1000)

LossReason(x) == "loss " \o Fixed3(Round3(x))

(* ---- make_matcher predicates and the Force Filter's decision ---------- *)
\* the broken variant: the exclude rule is tried before the include rule
ForceDecisionExcludeFirst(inc, exc) ==
    IF exc THEN [status |-> "REJECTED", reason |-> "FORCE_REJECTED"]
    ELSE IF inc THEN [status |-> "ACCEPTED", reason |-> "FORCE_INCLUDED"]
    ELSE [status |-> "UNCLASSIFIED", reason |-> ""]

\* the broken variant: the elif branch is missing
ForceDecisionNoExclude(inc, exc) ==
    IF inc THEN [status |-> "ACCEPTED", reason |-> "FORCE_INCLUDED"]
    ELSE [status |-> "UNCLASSIFIED", reason |-> ""]

\* finetune_filter.py 49-52
ForceDecision(inc, exc) ==
    IF inc THEN [status |-> "ACCEPTED", reason |-> "FORCE_INCLUDED"]
    ELSE IF exc THEN [status |-> "REJECTED", reason |-> "FORCE_REJECTED"]
    ELSE [status |-> "UNCLASSIFIED", reason |-> ""]

(* ---- _get_file_loss --------------------------------------------------- *)
isnan(x) == x = NaN
isinf(x) == x = Inf
IsFiniteLoss(x) == ~(isnan(x) \/ isinf(x))

NoLoss == [kind |-> "none", loss |-> Zero, msg |-> ""]
Raised(m) == [kind |-> "error", loss |-> Zero, msg |-> m]
Returned(x) == [kind |-> "loss", loss |-> x, msg |-> ""]

\* the broken variant: an empty file_losses yields 0.0 instead of raising
GetFileLossNoRaise(out) ==
    IF out.raised THEN Raised(out.msg)
    ELSE LET file_losses == SelectSeq(out.batches, IsFiniteLoss) IN
         IF Len(file_losses) = 0 THEN Returned(Zero)
         ELSE Returned(Norm(<<SumSeq(file_losses), Len(file_losses)>>))

\* finetune_filter.py 63-78; out is what the scorer did: it raised, or it
\* yielded the per-batch losses out.batches
GetFileLoss(out) ==
    IF out.raised THEN Raised(out.msg)
    ELSE LET file_losses == SelectSeq(out.batches, IsFiniteLoss) IN
         IF Len(file_losses) = 0 THEN Raised("small file")
         ELSE Returned(Norm(<<SumSeq(file_losses), Len(file_losses)>>))

(* ---- the body of loss_based_filter's loop ----------------------------- *)
\* the broken variant: >= instead of >
LossDecisionGe(r, thr) ==
    IF r.kind = "error"
    THEN [status |-> "REJECTED", reason |-> r.msg, append |-> FALSE, step |-> FALSE]
    ELSE IF ~RGt(<<thr, 1>>, r.loss)
    THEN [status |-> "REJECTED", reason |-> LossReason(r.loss),
          append |-> FALSE, step |-> TRUE]
    ELSE [status |-> "ACCEPTED", reason |-> LossReason(r.loss),
          append |-> TRUE, step |-> TRUE]

\* the broken variant: the except branch only continues
LossDecisionSkipOnError(r, thr) ==
    IF r.kind = "error"
    THEN [status |-> "UNCLASSIFIED", reason |-> "", append |-> FALSE, step |-> FALSE]
    ELSE IF RGt(r.loss, <<thr, 1>>)
    THEN [status |-> "REJECTED", reason |-> LossReason(r.loss),
          append |-> FALSE, step |-> TRUE]
    ELSE [status |-> "ACCEPTED", reason |-> LossReason(r.loss),
          append |-> TRUE, step |-> TRUE]

\* the broken variant: the except branch records a fixed text
LossDecisionFixedText(r, thr) ==
    IF r.kind = "error"
    THEN [status |-> "REJECTED", reason |-> "error", append |-> FALSE, step |-> FALSE]
    ELSE IF RGt(r.loss, <<thr, 1>>)
    THEN [status |-> "REJECTED", reason |-> LossReason(r.loss),
          append |-> FALSE, step |-> TRUE]
    ELSE [status |-> "ACCEPTED", reason |-> LossReason(r.loss),
          append |-> TRUE, step |-> TRUE]

\* the broken variant: every scored loss is appended to all_losses
LossDecisionAppendAll(r, thr) ==
    IF r.kind = "error"
    THEN [status |-> "REJECTED", reason |-> r.msg, append |-> FALSE, step |-> FALSE]
    ELSE IF RGt(r.loss, <<thr, 1>>)
    THEN [status |-> "REJECTED", reason |-> LossReason(r.loss),
          append |-> TRUE, step |-> TRUE]
    ELSE [status |-> "ACCEPTED", reason |-> LossReason(r.loss),
          append |-> TRUE, step |-> TRUE]

\* finetune_filter.py 88-100: append says whether file_loss joins all_losses,
\* step whether stats_tracker.step() is reached
LossDecision(r, thr) ==
    IF r.kind = "error"
    THEN [status |-> "REJECTED", reason |-> r.msg, append |-> FALSE, step |-> FALSE]
    ELSE IF RGt(r.loss, <<thr, 1>>)
    THEN [status |-> "REJECTED", reason |-> LossReason(r.loss),
          append |-> FALSE, step |-> TRUE]
    ELSE [status |-> "ACCEPTED", reason |-> LossReason(r.loss),
          append |-> TRUE, step |-> TRUE]

\* finetune_filter.py 101: sum(all_losses) / len(all_losses), len > 0
AvgLoss(losses) == RDivInt(RSumSeq(losses), Len(losses))

(* ---- FilesStatusContext ----------------------------------------------- *)
\* the registry's files in order, from the n-th on: training files first
RECURSIVE FilesFrom(_)
FilesFrom(n) == IF n > Cardinality(AllFiles) THEN <<>>
                ELSE <<n>> \o FilesFrom(n + 1)

is_train(f) == f \in Files
Unclassified(f) == is_train(f) /\ fstatus[f] = "UNCLASSIFIED"

\* no_status_train_files(): the unclassified training files, in order
no_status_train_files == SelectSeq(FilesFrom(1), Unclassified)

\* accept_file / reject_file: set the file's status and reason
SetFileStatus(f, d) ==
    /\ fstatus' = [fstatus EXCEPT ![f] = d.status]
    /\ reason' = [reason EXCEPT ![f] = d.reason]

(* ---- the run ---------------------------------------------------------- *)
NoOutput == [raised |-> FALSE, msg |-> "", batches |-> <<>>]
ScorerOutputs ==
    {[raised |-> TRUE, msg |-> m, batches |-> <<>>] : m \in ErrMsgs}
    \cup {[raised |-> FALSE, msg |-> "", batches |-> b] : b \in BatchSeqs}

\* the statements of main() inside its try block (175-183)
TryPcs == {"starting", "load", "force_begin", "force", "loss_begin", "score",
           "classify", "avg", "dump", "finish"}
\* those of them inside finetune_filter() (104-142)
FilterPcs == TryPcs \ {"starting", "finish"}
\* those of them where an Exception is not caught before it reaches main():
\* one raised by _get_file_loss() is caught at 90
FaultPcs == TryPcs \ {"score"}

\* GlobalStatsContext(): RunState as the reporter creates it
RunStateCreated ==
    /\ status = "starting"
    /\ error_message = ""
    /\ total_steps = 0
    /\ completed_steps = 0
    /\ avg_loss = [published |-> FALSE, value |-> Zero]

\* FilesStatusContext(train_files, test_files, global_stats): every file
\* starts unclassified, with no reason
RegistryLoaded ==
    /\ fstatus = [f \in AllFiles |-> "UNCLASSIFIED"]
    /\ reason = [f \in AllFiles |-> ""]

\* main 145-154: the reporter exists and the SIGUSR1 handler is installed;
\* the rules, the threshold and the file set are the run's inputs
Init ==
    /\ pc = "config"
    /\ exitCode = 0
    /\ RunStateCreated
    /\ RegistryLoaded
    /\ include \in [AllFiles -> BOOLEAN]
    /\ exclude \in [AllFiles -> BOOLEAN]
    /\ filter_loss_threshold \in Thresholds
    /\ force_files = <<>>
    /\ fi = 1
    /\ train_files = <<>>
    /\ idx = 1
    /\ scorer_out = NoOutput
    /\ file_loss = [f \in AllFiles |-> NoLoss]
    /\ all_losses = <<>>
    /\ dumped = 0
    /\ interrupted_by = "none"
    /\ interrupted_at = "none"
    /\ up_to_date = "unknown"
    /\ error_at = "none"
    /\ scored = [f \in AllFiles |-> 0]

registry == <<fstatus, reason>>
loops == <<force_files, fi, train_files, idx, scorer_out, file_loss, all_losses>>
progress == <<total_steps, completed_steps, avg_loss>>
inputs == <<include, exclude, filter_loss_threshold>>
runstate == <<status, error_message>>
interruption == <<interrupted_by, interrupted_at>>
history == <<interrupted_by, interrupted_at, up_to_date, error_at, scored>>

\* the broken variant: error_message=str(e), without `or str(type(e))`
FailNoFallback(msg) ==
    /\ status' = "failed"
    /\ error_message' = msg
    /\ exitCode' = EXIT_FAILED
    /\ error_at' = pc
    /\ pc' = "done"

\* main 190-193: except Exception as e
Fail(msg) ==
    /\ status' = "failed"
    /\ error_message' = (IF msg # "" THEN msg ELSE "<class 'Exception'>")
    /\ exitCode' = EXIT_FAILED
    /\ error_at' = pc
    /\ pc' = "done"

\* main 156-164: the configurations load
LoadConfigs ==
    /\ pc = "config"
    /\ pc' = "up_to_date"
    /\ UNCHANGED <<exitCode, runstate, inputs, registry, loops, progress,
                   dumped, history>>

\* the broken variant: the return at 167 is missing
UpToDateNoReturn ==
    /\ pc = "up_to_date"
    /\ \E a \in {"yes", "no"} : up_to_date' = a
    /\ pc' = "banner"
    /\ UNCHANGED <<exitCode, runstate, inputs, registry, loops, progress,
                   dumped, interruption, error_at, scored>>

\* main 165-167
UpToDate ==
    /\ pc = "up_to_date"
    /\ \/ up_to_date' = "yes" /\ pc' = "done" /\ exitCode' = 0
       \/ up_to_date' = "no" /\ pc' = "banner" /\ UNCHANGED exitCode
    /\ UNCHANGED <<runstate, inputs, registry, loops, progress, dumped,
                   interruption, error_at, scored>>

\* main 169-173
Banner ==
    /\ pc = "banner"
    /\ pc' = "starting"
    /\ UNCHANGED <<exitCode, runstate, inputs, registry, loops, progress,
                   dumped, history>>

\* main 156-173 raising outside the try block: the interpreter prints the
\* traceback and exits with 1
ConfigError ==
    /\ pc \in {"config", "banner"}
    /\ pc' = "done"
    /\ exitCode' = EXIT_FAILED
    /\ error_at' = pc
    /\ UNCHANGED <<runstate, inputs, registry, loops, progress, dumped,
                   interruption, up_to_date, scored>>

\* main 175
Starting ==
    /\ pc = "starting"
    /\ status' = "starting"
    /\ error_message' = ""
    /\ pc' = "load"
    /\ UNCHANGED <<exitCode, inputs, registry, loops, progress, dumped,
                   history>>

\* finetune_filter 111-125
LoadModel ==
    /\ pc = "load"
    /\ pc' = "force_begin"
    /\ UNCHANGED <<exitCode, runstate, inputs, registry, loops, progress,
                   dumped, history>>

\* force_include_exclude_filter 36-48
ForceBegin ==
    /\ pc = "force_begin"
    /\ force_files' = no_status_train_files
    /\ fi' = 1
    /\ pc' = IF no_status_train_files = <<>> THEN "loss_begin" ELSE "force"
    /\ UNCHANGED <<exitCode, runstate, inputs, registry, train_files, idx,
                   scorer_out, file_loss, all_losses, progress, dumped,
                   history>>

\* force_include_exclude_filter 48-52, one file
ForceStep ==
    /\ pc = "force"
    /\ LET file == force_files[fi]
           d == ForceDecision(include[file], exclude[file])
       IN  IF d.status = "UNCLASSIFIED"
           THEN UNCHANGED registry
           ELSE SetFileStatus(file, d)
    /\ fi' = fi + 1
    /\ pc' = IF fi = Len(force_files) THEN "loss_begin" ELSE "force"
    /\ UNCHANGED <<exitCode, runstate, inputs, force_files, train_files, idx,
                   scorer_out, file_loss, all_losses, progress, dumped,
                   history>>

\* the broken variant: train_files holds every training file, classified
\* or not
LossBeginAllFiles ==
    /\ pc = "loss_begin"
    /\ train_files' = SelectSeq(FilesFrom(1), is_train)
    /\ idx' = 1
    /\ all_losses' = <<>>
    /\ total_steps' = Len(SelectSeq(FilesFrom(1), is_train))
    /\ completed_steps' = 0
    /\ pc' = "score"
    /\ UNCHANGED <<exitCode, runstate, inputs, registry, force_files, fi,
                   scorer_out, file_loss, avg_loss, dumped, history>>

\* loss_based_filter 80-86
LossBegin ==
    /\ pc = "loss_begin"
    /\ train_files' = no_status_train_files
    /\ idx' = 1
    /\ all_losses' = <<>>
    /\ total_steps' = Len(no_status_train_files)
    /\ completed_steps' = 0
    /\ pc' = IF no_status_train_files = <<>> THEN "avg" ELSE "score"
    /\ UNCHANGED <<exitCode, runstate, inputs, registry, force_files, fi,
                   scorer_out, file_loss, avg_loss, dumped, history>>

\* loss_based_filter 88-89: _get_file_loss() for the next file
ScoreFile ==
    /\ pc = "score"
    /\ \E out \in ScorerOutputs :
          /\ scorer_out' = out
          /\ file_loss' = [file_loss EXCEPT ![train_files[idx]] = GetFileLoss(out)]
    /\ scored' = [scored EXCEPT ![train_files[idx]] = @ + 1]
    /\ pc' = "classify"
    /\ UNCHANGED <<exitCode, runstate, inputs, registry, force_files, fi,
                   train_files, idx, all_losses, progress, dumped,
                   interruption, up_to_date, error_at>>

\* loss_based_filter 90-100 for the file just scored; every branch of the
\* code calls accept_file or reject_file
Classify ==
    /\ pc = "classify"
    /\ LET file == train_files[idx]
           d == LossDecision(file_loss[file], filter_loss_threshold)
       IN  /\ IF d.status = "UNCLASSIFIED"
              THEN UNCHANGED registry
              ELSE SetFileStatus(file, d)
           /\ all_losses' = IF d.append
                            THEN Append(all_losses, file_loss[file].loss)
                            ELSE all_losses
           /\ completed_steps' = IF d.step THEN completed_steps + 1
                                 ELSE completed_steps
    /\ idx' = idx + 1
    /\ scorer_out' = NoOutput
    /\ pc' = IF idx = Len(train_files) THEN "avg" ELSE "score"
    /\ UNCHANGED <<exitCode, runstate, inputs, force_files, fi, train_files,
                   file_loss, total_steps, avg_loss, dumped, history>>

\* loss_based_filter 101 with an accepted file
PublishAvgLoss ==
    /\ pc = "avg"
    /\ Len(all_losses) > 0
    /\ avg_loss' = [published |-> TRUE, value |-> AvgLoss(all_losses)]
    /\ pc' = "dump"
    /\ UNCHANGED <<exitCode, runstate, inputs, registry, loops, total_steps,
                   completed_steps, dumped, history>>

\* loss_based_filter 101 with no accepted file: 0 / 0 raises
\* ZeroDivisionError, which main catches at 190
AvgLossZeroDivision ==
    /\ pc = "avg"
    /\ Len(all_losses) = 0
    /\ Fail("division by zero")
    /\ UNCHANGED <<inputs, registry, loops, progress, dumped, interruption,
                   up_to_date, scored>>

\* finetune_filter 139-142
DumpFiltered ==
    /\ pc = "dump"
    /\ dumped' = dumped + 1
    /\ pc' = "finish"
    /\ UNCHANGED <<exitCode, runstate, inputs, registry, loops, progress,
                   history>>

\* main 183
Finished ==
    /\ pc = "finish"
    /\ status' = "finished"
    /\ error_message' = ""
    /\ pc' = "return"
    /\ UNCHANGED <<exitCode, inputs, registry, loops, progress, dumped,
                   history>>

\* main returns and the interpreter exits with 0
Return ==
    /\ pc = "return"
    /\ pc' = "done"
    /\ exitCode' = 0
    /\ UNCHANGED <<runstate, inputs, registry, loops, progress, dumped,
                   history>>

\* an Exception that nothing catches before main 190: a model load failure,
\* a persistence failure of the registry or of the reporter, a dump failure
Fault ==
    /\ pc \in FaultPcs
    /\ \E m \in FaultMsgs : Fail(m)
    /\ UNCHANGED <<inputs, registry, loops, progress, dumped, interruption,
                   up_to_date, scored>>

\* the broken variant: the handler at 186-189 swallows the exception
CancelExitZero ==
    /\ pc \in TryPcs
    /\ \E k \in {"KeyboardInterrupt", "SystemExit"} : interrupted_by' = k
    /\ interrupted_at' = pc
    /\ exitCode' = 0
    /\ pc' = "done"
    /\ UNCHANGED <<runstate, inputs, registry, loops, progress, dumped,
                   up_to_date, error_at, scored>>

\* main 186-189: KeyboardInterrupt or SystemExit raised inside the try block
Cancel ==
    /\ pc \in TryPcs
    /\ \E k \in {"KeyboardInterrupt", "SystemExit"} : interrupted_by' = k
    /\ interrupted_at' = pc
    /\ exitCode' = EXIT_INTERRUPTED
    /\ pc' = "done"
    /\ UNCHANGED <<runstate, inputs, registry, loops, progress, dumped,
                   up_to_date, error_at, scored>>

\* the broken variant: the handler records the status and returns
catch_sigusr1_no_exit ==
    /\ pc # "done"
    /\ interrupted_by = "none"
    /\ status' = "interrupted"
    /\ error_message' = "catched SIGUSR1, interrupted"
    /\ interrupted_by' = "SIGUSR1"
    /\ interrupted_at' = pc
    /\ UNCHANGED <<pc, exitCode, inputs, registry, loops, progress, dumped,
                   up_to_date, error_at, scored>>

\* main 149-154: SIGUSR1 while the process runs; exit(99) raises SystemExit,
\* which leaves with 99 through 186-189 or, outside the try block, uncaught
catch_sigusr1 ==
    /\ pc # "done"
    /\ status' = "interrupted"
    /\ error_message' = "catched SIGUSR1, interrupted"
    /\ interrupted_by' = "SIGUSR1"
    /\ interrupted_at' = pc
    /\ exitCode' = EXIT_INTERRUPTED
    /\ pc' = "done"
    /\ UNCHANGED <<inputs, registry, loops, progress, dumped, up_to_date,
                   error_at, scored>>

Next ==
    \/ LoadConfigs
    \/ UpToDate
    \/ Banner
    \/ ConfigError
    \/ Starting
    \/ LoadModel
    \/ ForceBegin
    \/ ForceStep
    \/ LossBegin
    \/ ScoreFile
    \/ Classify
    \/ PublishAvgLoss
    \/ AvgLossZeroDivision
    \/ DumpFiltered
    \/ Finished
    \/ Return
    \/ Fault
    \/ Cancel
    \/ catch_sigusr1

Spec == Init /\ [][Next]_vars

(* ======================================================================= *)
(* The claims                                                              *)
(* ======================================================================= *)
RECURSIVE SumOver(_, _)
SumOver(g, S) == IF S = {} THEN 0
                 ELSE LET x == CHOOSE y \in S : TRUE
                      IN  g[x] + SumOver(g, S \ {x})

RECURSIVE RSumOver(_, _)
RSumOver(g, S) == IF S = {} THEN Zero
                  ELSE LET x == CHOOSE y \in S : TRUE
                       IN  RAdd(g[x], RSumOver(g, S \ {x}))

\* the files the Loss Filter accepted
LossAccepted == {f \in Files : fstatus[f] = "ACCEPTED" /\ reason[f] # "FORCE_INCLUDED"}
\* the Loss Filter's loop is over and nothing was raised since
AfterLossLoop == pc \in {"avg", "dump", "finish", "return"}

C3_Totality ==
    status = "finished" =>
        \A f \in Files : fstatus[f] \in {"ACCEPTED", "REJECTED"}

C3_Witness ==
    /\ status = "finished"
    /\ \E f \in Files : file_loss[f].kind = "error" /\ fstatus[f] = "REJECTED"

(* C4: threshold boundary: a file the Loss Filter classified from a mean   *)
(* loss is REJECTED exactly when the mean is strictly greater than the     *)
(* threshold; a mean equal to the threshold, or below it, is ACCEPTED.     *)
C4_ThresholdBoundary ==
    \A f \in Files :
        (file_loss[f].kind = "loss" /\ fstatus[f] # "UNCLASSIFIED") =>
            LET n == file_loss[f].loss[1]
                d == file_loss[f].loss[2]
            IN  /\ fstatus[f] = "REJECTED" <=> n > filter_loss_threshold * d
                /\ n <= filter_loss_threshold * d => fstatus[f] = "ACCEPTED"

C4_Witness ==
    \E f \in Files :
        /\ file_loss[f] = Returned(<<filter_loss_threshold, 1>>)
        /\ fstatus[f] = "ACCEPTED"

(* C5: a file for which the scorer yields no finite loss (nothing, or only *)
(* NaN and infinite values) makes _get_file_loss raise, a file whose       *)
(* scoring raised is REJECTED once classified and never ACCEPTED, and the  *)
(* mean of a file is the mean of its finite values only.                   *)
C5_NoFiniteLossRejected ==
    LET b == scorer_out.batches
        finite == {k \in 1..Len(b) : b[k] \notin {NaN, Inf}}
        cur == file_loss[train_files[idx]]
    IN  /\ (pc = "classify" /\ ~scorer_out.raised /\ finite = {}) =>
               cur = Raised("small file")
        /\ (pc = "classify" /\ ~scorer_out.raised /\ finite # {}) =>
               /\ cur.kind = "loss"
               /\ cur.loss[1] * Cardinality(finite) = SumOver(b, finite) * cur.loss[2]
        /\ \A k \in 1..Len(train_files) :
               file_loss[train_files[k]].kind = "error" =>
                   /\ fstatus[train_files[k]] # "ACCEPTED"
                   /\ k < idx => fstatus[train_files[k]] = "REJECTED"

C5_Witness ==
    /\ pc = "classify"
    /\ idx = 2
    /\ fstatus[train_files[1]] = "REJECTED"
    /\ reason[train_files[1]] = "small file"
    /\ Len(scorer_out.batches) = 2
    /\ scorer_out.batches[1] = NaN
    /\ scorer_out.batches[2] = Inf
    /\ file_loss[train_files[2]] = Raised("small file")

(* C6: a scoring error on one file does not abort the run: the file is     *)
(* REJECTED with the error's text as its reason, the loop goes on to score *)
(* and classify every later file of its list, a failed run never carries   *)
(* a scoring error's text, and the run can still finish.                   *)
C6_ScoringErrorRecovered ==
    /\ \A k \in 1..Len(train_files) :
           (k < idx /\ file_loss[train_files[k]].kind = "error") =>
               /\ fstatus[train_files[k]] = "REJECTED"
               /\ reason[train_files[k]] = file_loss[train_files[k]].msg
    /\ (AfterLossLoop \/ status = "finished") =>
           \A k \in 1..Len(train_files) :
               /\ file_loss[train_files[k]].kind # "none"
               /\ fstatus[train_files[k]] # "UNCLASSIFIED"
    /\ status = "failed" => error_message \notin (ErrMsgs \cup {"small file"})

C6_Witness ==
    /\ status = "finished"
    /\ Len(train_files) = 2
    /\ file_loss[train_files[1]] = Raised("CUDA out of memory")
    /\ reason[train_files[1]] = "CUDA out of memory"
    /\ fstatus[train_files[2]] = "ACCEPTED"

(* C7: completed_steps never exceeds total_steps, and once the Loss        *)
(* Filter's loop is over completed_steps equals total_steps, the number of *)
(* files that were unclassified when the Loss Filter started.              *)
C7_StepsComplete ==
    /\ completed_steps <= total_steps
    /\ AfterLossLoop =>
           /\ total_steps = Len(train_files)
           /\ completed_steps = total_steps

(* C8: when the Loss Filter accepts no file the avg_loss computation is    *)
(* guarded: the run does not fail with the division by zero, and no        *)
(* avg_loss of zero is published.                                          *)
C8_AvgLossGuarded ==
    /\ ~(status = "failed" /\ error_message = "division by zero")
    /\ avg_loss.published => avg_loss.value # Zero

(* C9, as stated: the published avg_loss equals the arithmetic mean of the *)
(* values shown in the "loss x" reasons of the files the Loss Filter       *)
(* accepted.                                                               *)
Digit(c) == CASE c = "0" -> 0 [] c = "1" -> 1 [] c = "2" -> 2 [] c = "3" -> 3
              [] c = "4" -> 4 [] c = "5" -> 5 [] c = "6" -> 6 [] c = "7" -> 7
              [] c = "8" -> 8 [] c = "9" -> 9

RECURSIVE ParseNat(_)
ParseNat(s) == IF Len(s) = 0 THEN 0
               ELSE 10 * ParseNat(SubSeq(s, 1, Len(s) - 1))
                    + Digit(SubSeq(s, Len(s), Len(s)))

\* the number a reason "loss i.fff" shows, in thousandths
ShownLoss(s) == 1000 * ParseNat(SubSeq(s, 6, Len(s) - 4))
                + ParseNat(SubSeq(s, Len(s) - 2, Len(s)))

Shown(f) == ShownLoss(reason[f])
ShownOf == [f \in Files |-> IF f \in LossAccepted THEN Shown(f) ELSE 0]
MeasuredOf == [f \in Files |-> file_loss[f].loss]

C9_AvgOfShownLosses ==
    avg_loss.published =>
        /\ LossAccepted # {}
        /\ avg_loss.value =
               Norm(<<SumOver(ShownOf, LossAccepted), 1000 * Cardinality(LossAccepted)>>)

(* C9, amended: the published avg_loss equals the arithmetic mean of the   *)
(* unrounded per-file mean losses of exactly the files the Loss Filter     *)
(* accepted; each "loss x" reason shows its file's mean rounded to three   *)
(* decimals, within 0.0005 of it; rejected and force-included files        *)
(* contribute nothing.                                                     *)
C9_AvgOfAcceptedLosses ==
    avg_loss.published =>
        /\ LossAccepted # {}
        /\ \A f \in LossAccepted : file_loss[f].kind = "loss"
        /\ avg_loss.value =
               RDivInt(RSumOver(MeasuredOf, LossAccepted), Cardinality(LossAccepted))
        /\ \A f \in LossAccepted :
               LET n == file_loss[f].loss[1]
                   d == file_loss[f].loss[2]
               IN  /\ 2 * (1000 * n - Shown(f) * d) <= d
                   /\ 2 * (Shown(f) * d - 1000 * n) <= d

C9_Witness ==
    /\ avg_loss.published
    /\ \E f \in LossAccepted : file_loss[f].loss[2] = 3
    /\ \E f \in Files : reason[f] = "FORCE_INCLUDED"

(* C10: every interruption, SIGUSR1 or a KeyboardInterrupt / SystemExit    *)
(* raised during filtering, sets RunState's status to INTERRUPTED with an  *)
(* explanatory message and ends the process with code 99.                  *)
C10_InterruptedStatusAndCode ==
    (\/ interrupted_by = "SIGUSR1"
     \/ interrupted_by \in {"KeyboardInterrupt", "SystemExit"}
        /\ interrupted_at \in FilterPcs) =>
        /\ pc = "done"
        /\ exitCode = EXIT_INTERRUPTED
        /\ status = "interrupted"
        /\ error_message # ""

(* C11: an Exception that escapes to main's handler while the pipeline     *)
(* runs (it is not an interruption and was not recovered per file) sets    *)
(* RunState's status to FAILED with a non-empty error message and ends the *)
(* process with code 1; the status is not FINISHED on such a run.          *)
C11_EscapedErrorFails ==
    error_at \in TryPcs =>
        /\ pc = "done"
        /\ status = "failed"
        /\ error_message # ""
        /\ exitCode = EXIT_FAILED

C11_Witness ==
    /\ error_at = "dump"
    /\ status = "failed"
    /\ error_message = "<class 'Exception'>"
    /\ exitCode = EXIT_FAILED

(* C12: a configuration failure and a model-load failure both end the      *)
(* process with the failure code and with RunState's status FAILED.        *)
C12_ConfigFailureIsFailed ==
    error_at \in {"config", "banner", "load"} =>
        /\ pc = "done"
        /\ exitCode = EXIT_FAILED
        /\ status = "failed"

(* C13: RunState is STARTING when is_up_to_date() is asked; when it        *)
(* answers true the run scores no file, accepts and rejects none, loads no *)
(* model, dumps nothing, leaves RunState as it was and ends with code 0.   *)
C13_UpToDateNoOp ==
    /\ pc = "up_to_date" => status = "starting"
    /\ up_to_date = "yes" =>
           /\ pc = "done"
           /\ exitCode = 0
           /\ status = "starting"
           /\ error_message = ""
           /\ total_steps = 0 /\ completed_steps = 0 /\ ~avg_loss.published
           /\ dumped = 0
           /\ \A f \in AllFiles :
                  scored[f] = 0 /\ fstatus[f] = "UNCLASSIFIED" /\ reason[f] = ""

C13_Witness ==
    /\ up_to_date = "yes"
    /\ pc = "done"
    /\ exitCode = 0

(* C14: the process ends with code 0 only on the up-to-date path or with   *)
(* FINISHED as the last status written; never after an interruption was    *)
(* delivered or an error escaped.                                          *)
C14_ZeroMeansSuccess ==
    (pc = "done" /\ exitCode = 0) =>
        /\ up_to_date = "yes" \/ status = "finished"
        /\ interrupted_by = "none"
        /\ error_at = "none"

C14_Witness ==
    /\ pc = "done"
    /\ exitCode = 0
    /\ status = "finished"
    /\ dumped = 1

(* C15: SIGUSR1 delivered while the filters run stops processing: the      *)
(* process is over, nothing was dumped, and every file the filter had not  *)
(* yet processed at the signal is UNCLASSIFIED, the later ones unscored.   *)
FiltersRunning == {"force_begin", "force", "loss_begin", "score", "classify", "avg"}

C15_SignalStopsProcessing ==
    (interrupted_by = "SIGUSR1" /\ interrupted_at \in FiltersRunning) =>
        /\ pc = "done"
        /\ status = "interrupted"
        /\ exitCode = EXIT_INTERRUPTED
        /\ dumped = 0
        /\ interrupted_at = "force_begin" =>
               \A f \in Files : fstatus[f] = "UNCLASSIFIED"
        /\ interrupted_at = "force" =>
               \A k \in fi..Len(force_files) :
                   fstatus[force_files[k]] = "UNCLASSIFIED"
        /\ interrupted_at \in {"force_begin", "force", "loss_begin"} =>
               \A f \in AllFiles : scored[f] = 0
        /\ interrupted_at \in {"score", "classify"} =>
               /\ \A k \in idx..Len(train_files) :
                      fstatus[train_files[k]] = "UNCLASSIFIED"
               /\ \A k \in (idx + 1)..Len(train_files) :
                      scored[train_files[k]] = 0
               /\ interrupted_at = "score" => scored[train_files[idx]] = 0

C15_Witness ==
    /\ interrupted_by = "SIGUSR1"
    /\ interrupted_at = "score"
    /\ idx = 2
    /\ fstatus[train_files[1]] = "ACCEPTED"
    /\ fstatus[train_files[2]] = "UNCLASSIFIED"

(* C16: FINISHED, INTERRUPTED and FAILED are terminal: once RunState's     *)
(* status is one of them it never changes again.                           *)
C16_TerminalStatusStable ==
    [][(status \in {"finished", "interrupted", "failed"}) => (status' = status)]_vars

(* C17: on a run that is not up to date RunState is RUNNING while the      *)
(* Force Filter, the Loss Filter and the dump run; the accepted list is    *)
(* dumped at most once and only after the Loss Filter completed; FINISHED  *)
(* is set only after the dump.                                             *)
C17_StageOrder ==
    /\ pc \in FilterPcs \cup {"finish"} => status = "running"
    /\ dumped <= 1
    /\ dumped = 1 => avg_loss.published /\ idx = Len(train_files) + 1
    /\ status = "finished" => dumped = 1

(* C18: a training file's status changes only from UNCLASSIFIED to         *)
(* ACCEPTED or REJECTED, so at most once in a run, and its reason changes  *)
(* only together with it.                                                  *)
C18_ClassifiedOnce ==
    [][(\A f \in AllFiles :
           (fstatus'[f] # fstatus[f] \/ reason'[f] # reason[f]) =>
               (/\ fstatus[f] = "UNCLASSIFIED"
                /\ fstatus'[f] \in {"ACCEPTED", "REJECTED"}))]_vars

C18_Witness ==
    /\ status = "finished"
    /\ \E f \in Files : reason[f] = "FORCE_REJECTED"
    /\ LossAccepted # {}

(* C19: a training file has a non-empty reason if and only if its status   *)
(* is not UNCLASSIFIED.                                                    *)
C19_ReasonIffClassified ==
    \A f \in Files : reason[f] # "" <=> fstatus[f] # "UNCLASSIFIED"

(* C20: _get_file_loss is called at most once per file, only for training  *)
(* files of the list taken when the Loss Filter started, in list order and *)
(* only after every earlier file of the list is classified; files the      *)
(* Force Filter classified and test files are never scored.                *)
C20_ScoredOnceInOrder ==
    /\ \A f \in AllFiles :
           /\ scored[f] <= 1
           /\ scored[f] = 1 =>
                  /\ f \in Files
                  /\ \E k \in 1..Len(train_files) : train_files[k] = f
                  /\ ~include[f] /\ ~exclude[f]
           /\ reason[f] \in {"FORCE_INCLUDED", "FORCE_REJECTED"} => scored[f] = 0
    /\ \A f \in TestFiles : scored[f] = 0 /\ fstatus[f] = "UNCLASSIFIED"
    /\ \A k \in 1..Len(train_files) :
           scored[train_files[k]] = 1 =>
               \A j \in 1..(k - 1) :
                   /\ train_files[j] < train_files[k]
                   /\ scored[train_files[j]] = 1
                   /\ fstatus[train_files[j]] # "UNCLASSIFIED"

C20_Witness ==
    /\ status = "finished"
    /\ \E f \in Files : reason[f] = "FORCE_INCLUDED" /\ scored[f] = 0
    /\ \E f \in Files : scored[f] = 1 /\ fstatus[f] = "ACCEPTED"
    /\ \E f \in TestFiles : include[f]
====
